---- MODULE Spec2Model ----
(***************************************************************************)
(* Model of the resume service: GeminiService (model roster, fallback      *)
(* loop, response normalisation and field validation), FileProcessor,      *)
(* URLDownloader and the three request handlers of app/main.py.            *)
(*                                                                         *)
(* Texts are sequences of tokens.  A model response is a token sequence    *)
(* over "fence_json" (three backticks and the word json), "fence" (three   *)
(* backticks not followed by json), "bslash" (one backslash), "s" (the     *)
(* letter s), " " (whitespace), "x" (any other text) and "P" (the text of  *)
(* one complete JSON value, whose parsed value is the payload of the       *)
(* response).  Scores are counted in thousandths.                          *)
(***************************************************************************)
EXTENDS Integers, Sequences, FiniteSets, TLC

VARIABLES
    pc,                   \* "boot" before lifespan startup, "serving" after
    configured,           \* settings.is_gemini_configured
    gemini_service,       \* "None" or "GeminiService" (main.gemini_service)
    all_models,           \* what genai.list_models answered to the constructor
    model_names,          \* GeminiService.model_names (the roster)
    model,                \* identifier held by GeminiService.model
    current_model_index,  \* GeminiService.current_model_index (0-based)
    endpoint,             \* endpoint of the last request handled
    request,              \* inputs of the last request handled
    steps,                \* pipeline steps the last request performed, in order
    parser,               \* parser extract_text called for the last request ("" if none)
    start_index,          \* current_model_index when the last operation began
    invoked,              \* identifiers whose generate_content was called, in order
    producer,             \* identifier whose generate_content returned ("" if none)
    tried,                \* identifiers the exhausted-roster error lists
    response,             \* the model response the last operation received
    payload,              \* the JSON value the token "P" of that response denotes
    outcome,              \* what the last model operation returned or raised
    status_code,          \* HTTP status of the last request (0 before any)
    detail,               \* which error the last request was answered with
    download,             \* URL and server answer of the last download_file call
    downloaded            \* what that call did, and returned or raised

vars == <<pc, configured, gemini_service, all_models, model_names, model, current_model_index,
          endpoint, request, steps, parser, start_index, invoked, producer, tried,
          response, payload, outcome, status_code, detail, download, downloaded>>

download_vars == <<download, downloaded>>

service_vars == <<model_names, model, current_model_index>>

\* ------------------------------------------------------------------ bounds

\* longest model response text, in tokens
MaxLen == 3
\* longest listing of models the backing service reports
MaxList == 2
MaxName == 5
MaxOther == 6

\* ------------------------------------------------------------ JSON values

\* A JSON field value: absent key, null, a string (token sequence), a finite
\* number (thousandths), a non-finite number literal, or a string holding a
\* numeric literal.
Val(t, s, n) == [t |-> t, s |-> s, n |-> n]
Missing == Val("missing", <<>>, 0)
Null == Val("null", <<>>, 0)
Str(s) == Val("str", s, 0)
Num(n) == Val("num", <<>>, n)
NumStr(n) == Val("numstr", <<>>, n)
Inf == Val("inf", <<>>, 0)
NegInf == Val("-inf", <<>>, 0)
NaN == Val("nan", <<>>, 0)
List == Val("list", <<>>, 0)

WS == " "
IsSpace(c) == c = WS

\* str.strip()
RECURSIVE LStrip(_)
LStrip(s) == IF s # <<>> /\ IsSpace(Head(s)) THEN LStrip(Tail(s)) ELSE s

RECURSIVE RStrip(_)
RStrip(s) ==
    IF s # <<>> /\ IsSpace(s[Len(s)]) THEN RStrip(SubSeq(s, 1, Len(s) - 1)) ELSE s

Strip(s) == RStrip(LStrip(s))

HasPrefix(s, p) == Len(s) >= Len(p) /\ SubSeq(s, 1, Len(p)) = p

RECURSIVE DropWhile(_, _)
DropWhile(star, s) ==
    IF s # <<>> /\ Head(s) \in star THEN DropWhile(star, Tail(s)) ELSE s

\* re.sub(pattern, "", s) for a pattern that is a literal prefix followed by
\* one starred class: every leftmost non-overlapping match is removed.
RECURSIVE ReSub(_, _, _)
ReSub(prefix, star, s) ==
    IF s = <<>> THEN <<>>
    ELSE IF HasPrefix(s, prefix)
         THEN ReSub(prefix, star, DropWhile(star, SubSeq(s, Len(prefix) + 1, Len(s))))
         ELSE <<Head(s)>> \o ReSub(prefix, star, Tail(s))

FENCE == "fence"
FENCE_JSON == "fence_json"
BACKSLASH == "bslash"
LETTER_S == "s"
PAYLOAD == "P"

\* the two re.sub calls and the strip of the score and cover-letter
\* operations: fence with json and a whitespace run, then fence and a
\* whitespace run
StripFences(text) ==
    Strip(ReSub(<<FENCE>>, {WS}, ReSub(<<FENCE_JSON>>, {WS}, text)))

\* the patterns of the resume operation double the backslash: fence with
\* json, one literal backslash, a run of the letter s; then fence, one
\* literal backslash, a run of the letter s
StripFencesResume(text) ==
    Strip(ReSub(<<FENCE, BACKSLASH>>, {LETTER_S},
                ReSub(<<FENCE_JSON, BACKSLASH>>, {LETTER_S}, text)))

\* json.loads: the text is one JSON value, surrounding whitespace allowed
IsJSON(text) == Strip(text) = <<PAYLOAD>>

\* ------------------------------------------------- GeminiService.__init__

\* the preferred identifiers, best quality first
PREFERRED ==
    <<"gemini-2.5-pro", "gemini-2.5-flash", "gemini-pro-latest",
      "gemini-flash-latest", "gemini-2.0-flash">>

\* how many available identifiers are taken when no preferred one is available
FALLBACK_TAKE == 5

SeqToSet(s) == {s[i] : i \in 1..Len(s)}

RECURSIVE Filter(_, _)
Filter(s, keep) ==
    IF s = <<>> THEN <<>>
    ELSE IF Head(s) \in keep THEN <<Head(s)>> \o Filter(Tail(s), keep)
         ELSE Filter(Tail(s), keep)

\* model.name.split('/')[-1] of a listed model; a name is its path segments
ShortName(entry) == entry.name[Len(entry.name)]

\* the short names of the listed models that support generateContent, in
\* listing order
RECURSIVE AvailableModelNames(_)
AvailableModelNames(listing) ==
    IF listing = <<>> THEN <<>>
    ELSE IF Head(listing).generateContent
         THEN <<ShortName(Head(listing))>> \o AvailableModelNames(Tail(listing))
         ELSE AvailableModelNames(Tail(listing))

\* Roster taking every available identifier when no preferred one is available
Roster_TakeAll(listed) ==
    IF ~listed.ok THEN PREFERRED
    ELSE LET available == AvailableModelNames(listed.models)
             preferred == Filter(PREFERRED, SeqToSet(available))
         IN  IF preferred = <<>> /\ available # <<>>
             THEN available
             ELSE preferred

\* self.model_names after the try block: listed.ok is FALSE when
\* genai.list_models raises, and the default list is then kept
Roster(listed) ==
    IF ~listed.ok THEN PREFERRED
    ELSE LET available == AvailableModelNames(listed.models)
             preferred == Filter(PREFERRED, SeqToSet(available))
         IN  IF preferred = <<>> /\ available # <<>>
             THEN SubSeq(available, 1,
                         IF Len(available) < FALLBACK_TAKE THEN Len(available)
                         ELSE FALLBACK_TAKE)
             ELSE preferred

\* ------------------------------------------------------- the fallback loop

\* SelectModel without "self.current_model_index = i"
SelectModel_KeepIndex(svc, names, i) ==
    IF i > 0 THEN [model |-> names[i + 1], index |-> svc.index] ELSE svc

\* SelectModel with every operation starting over at the first roster entry
SelectModel_FromFirst(svc, names, i) ==
    IF i > 0 THEN [model |-> names[i + 1], index |-> i]
    ELSE [model |-> names[1], index |-> 0]

\* "if i > 0": the model and index the attempt i (0-based) runs with
SelectModel(svc, names, i) ==
    IF i > 0 THEN [model |-> names[i + 1], index |-> i] ELSE svc

\* the identifiers the exhausted-roster error lists
TriedModels(names) == names

\* for i in range(len(self.model_names)): fails[i + 1] says whether
\* generate_content raises at attempt i
RECURSIVE TryModels(_, _, _, _, _)
TryModels(names, svc, i, fails, calls) ==
    LET s1 == SelectModel(svc, names, i)
        calls1 == Append(calls, s1.model)
    IN  IF ~fails[i + 1]
        THEN [svc |-> s1, invoked |-> calls1, ok |-> TRUE,
              producer |-> s1.model, tried |-> <<>>]
        ELSE IF i = Len(names) - 1
             THEN [svc |-> s1, invoked |-> calls1, ok |-> FALSE,
                   producer |-> "", tried |-> TriedModels(names)]
             ELSE TryModels(names, s1, i + 1, fails, calls1)

\* self.model_names[self.current_model_index]
ModelUsed(names, svc) == names[svc.index + 1]

\* ------------------------------------------------------ response handling

\* upper end of the score range, in thousandths
SCORE_MAX == 100 * 1000

\* order of floats: comparisons with nan are false
Ord(v) == IF v.t = "inf" THEN SCORE_MAX * 1000
          ELSE IF v.t = "-inf" THEN 0 - SCORE_MAX * 1000 ELSE v.n
FloatLt(a, b) == a.t # "nan" /\ b.t # "nan" /\ Ord(a) < Ord(b)

\* min(a, b) and max(a, b) of Python: the first argument unless the second
\* is strictly smaller (larger)
PyMin(a, b) == IF FloatLt(b, a) THEN b ELSE a
PyMax(a, b) == IF FloatLt(a, b) THEN b ELSE a

\* float(x): defined on numbers and on strings holding a numeric literal
CanFloat(v) == v.t \in {"num", "numstr", "inf", "-inf", "nan"}
Float(v) == IF v.t = "numstr" THEN Num(v.n) ELSE v

\* Clamp without the upper end
Clamp_NoUpper(score) == PyMax(Num(0), score)

\* max(0, min(100, score))
Clamp(score) == PyMax(Num(0), PyMin(Num(SCORE_MAX), score))

\* round(x, 2) of a finite x >= 0 in thousandths.  A tie is decided by the
\* binary value of the float, which lies on either side: tie_up says which.
Round2(x, tie_up) ==
    LET q == x \div 10
        r == x % 10
    IN  IF r < 5 THEN q * 10
        ELSE IF r > 5 THEN (q + 1) * 10
        ELSE IF tie_up THEN (q + 1) * 10 ELSE q * 10

\* result.get(key, default)
Get(v, default) == IF v.t = "missing" THEN default ELSE v

\* Python truth value of a JSON field value
Truthy(v) ==
    /\ v.t \notin {"missing", "null"}
    /\ (v.t = "str" => v.s # <<>>)
    /\ (v.t = "num" => v.n # 0)

\* result.get(key) or ""
OrEmpty(v) == IF Truthy(v) THEN v ELSE Str(<<>>)

NO_FEEDBACK == Str(<<"No feedback provided">>)
EMPTY_LIST == List
FALLBACK_NOTES == Str(<<"Model returned non-JSON response">>)

\* what an operation hands back: status "returned" with the fields of its
\* result, or status "ValueError" with the kind of failure
NoFields ==
    [score |-> Missing, feedback |-> Missing, strengths |-> Missing,
     weaknesses |-> Missing, recommendations |-> Missing,
     cover_letter |-> Missing, job_title |-> Missing, company_name |-> Missing,
     notes |-> Missing, regenerated_resume |-> Missing, model_used |-> ""]

Returned(fields) == [status |-> "returned", error |-> "", fields |-> fields]
Raised(kind) == [status |-> "ValueError", error |-> kind, fields |-> NoFields]

\* response.text.strip(): response.has_text is FALSE when reading the text
\* of the response raises
ResponseText(resp) == Strip(resp.text)

\* the body of analyze_resume_for_ats after the loop
ParseScore(resp, pay, tie_up) ==
    IF ~resp.has_text THEN Raised("processing")
    ELSE LET text == StripFences(ResponseText(resp))
         IN  IF ~IsJSON(text) THEN Raised("parse")
             ELSE IF pay.kind # "object" THEN Raised("processing")
             ELSE LET raw == Get(pay.score, Num(0))
                  IN  IF ~CanFloat(raw) THEN Raised("processing")
                      ELSE Returned(
                               [NoFields EXCEPT
                                   !.score = Num(Round2(Clamp(Float(raw)).n, tie_up)),
                                   !.feedback = Get(pay.feedback, NO_FEEDBACK),
                                   !.strengths = Get(pay.strengths, EMPTY_LIST),
                                   !.weaknesses = Get(pay.weaknesses, EMPTY_LIST),
                                   !.recommendations =
                                       Get(pay.recommendations, EMPTY_LIST)])

\* result.get(key, "").strip(): defined on strings only
CanStrip(v) == v.t \in {"missing", "str"}
Stripped_NoStrip(v) == Get(v, Str(<<>>)).s
Stripped(v) == Strip(Get(v, Str(<<>>)).s)

\* "if not cover_letter": the mandatory field is rejected when empty
RejectEmpty(text) == text = <<>>

\* the body of generate_cover_letter after the loop
ParseCoverLetter(resp, pay, names, svc) ==
    IF ~resp.has_text THEN Raised("processing")
    ELSE LET text == StripFences(ResponseText(resp))
         IN  IF ~IsJSON(text) THEN Raised("parse")
             ELSE IF pay.kind # "object" THEN Raised("processing")
             ELSE IF ~CanStrip(pay.cover_letter) THEN Raised("processing")
             ELSE IF RejectEmpty(Stripped(pay.cover_letter))
                  THEN Raised("processing")
             ELSE Returned(
                      [NoFields EXCEPT
                          !.cover_letter = Str(Stripped(pay.cover_letter)),
                          !.model_used = ModelUsed(names, svc),
                          !.job_title = OrEmpty(pay.job_title),
                          !.company_name = OrEmpty(pay.company_name),
                          !.notes = OrEmpty(pay.notes)])

\* the JSONDecodeError branch written as in the other two operations
RawTextResume_Raises(text, names, svc) == Raised("parse")

\* the JSONDecodeError branch of generate_ats_optimized_resume
RawTextResume(text, names, svc) ==
    Returned([NoFields EXCEPT
                 !.regenerated_resume = Str(Strip(text)),
                 !.model_used = ModelUsed(names, svc),
                 !.notes = FALLBACK_NOTES])

\* the body of generate_ats_optimized_resume after the loop
ParseResume(resp, pay, names, svc) ==
    IF ~resp.has_text THEN Raised("processing")
    ELSE LET text == StripFencesResume(ResponseText(resp))
         IN  IF ~IsJSON(text) THEN RawTextResume(text, names, svc)
             ELSE IF pay.kind # "object" THEN Raised("processing")
             ELSE IF ~CanStrip(pay.regenerated_resume) THEN Raised("processing")
             ELSE IF RejectEmpty(Stripped(pay.regenerated_resume))
                  THEN Raised("processing")
             ELSE Returned(
                      [NoFields EXCEPT
                          !.regenerated_resume =
                              Str(Stripped(pay.regenerated_resume)),
                          !.model_used = ModelUsed(names, svc),
                          !.notes = OrEmpty(pay.notes)])

\* ------------------------------------------------------------ operations

NoOutcome == [status |-> "none", error |-> "", fields |-> NoFields]

\* what an operation does with the response it received
Body(op, resp, pay, names, svc, tie_up) ==
    IF op = "score" THEN ParseScore(resp, pay, tie_up)
    ELSE IF op = "cover_letter" THEN ParseCoverLetter(resp, pay, names, svc)
    ELSE ParseResume(resp, pay, names, svc)

\* one Model Client operation: the fallback loop, then the body of op
Operation(op, names, svc, fails, resp, pay, tie_up) ==
    LET t == TryModels(names, svc, 0, fails, <<>>)
    IN  [svc |-> t.svc, invoked |-> t.invoked, producer |-> t.producer,
         tried |-> t.tried, received |-> t.ok,
         outcome |-> IF ~t.ok THEN Raised("exhausted")
                     ELSE Body(op, resp, pay, names, t.svc, tie_up)]

\* ---------------------------------------------------------- FileProcessor

MAX_FILE_SIZE == 10 * 1024 * 1024
ALLOWED_EXTENSIONS == {<<".", "d", "o", "c">>, <<".", "d", "o", "c", "x">>,
                       <<".", "p", "d", "f">>}

\* str.lower() on the characters file names are written with here
LowerChar(c) ==
    IF c = "P" THEN "p" ELSE IF c = "D" THEN "d" ELSE IF c = "F" THEN "f"
    ELSE IF c = "O" THEN "o" ELSE IF c = "C" THEN "c" ELSE IF c = "X" THEN "x"
    ELSE c
Lower(name) == [i \in 1..Len(name) |-> LowerChar(name[i])]

EndsWith(name, suffix) ==
    Len(name) >= Len(suffix)
    /\ SubSeq(name, Len(name) - Len(suffix) + 1, Len(name)) = suffix

is_valid_extension(filename) ==
    \E ext \in ALLOWED_EXTENSIONS : EndsWith(Lower(filename), ext)

\* the ValueError messages of extract_text, by their fixed part
PDF_ERROR == "Error extracting text from PDF"
DOCX_ERROR == "Error extracting text from DOCX"
DOC_ERROR == "DOC files (legacy format) are not directly supported"
UNSUPPORTED_ERROR == "Unsupported file type"

\* get_file_type on the file name as written, without lower-casing it
get_file_type_CaseSensitive(filename) ==
    IF EndsWith(filename, <<".", "p", "d", "f">>) THEN "pdf"
    ELSE IF EndsWith(filename, <<".", "d", "o", "c", "x">>) THEN "docx"
    ELSE IF EndsWith(filename, <<".", "d", "o", "c">>) THEN "doc"
    ELSE "unknown"

get_file_type(filename) ==
    LET lower == Lower(filename)
    IN  IF EndsWith(lower, <<".", "p", "d", "f">>) THEN "pdf"
        ELSE IF EndsWith(lower, <<".", "d", "o", "c", "x">>) THEN "docx"
        ELSE IF EndsWith(lower, <<".", "d", "o", "c">>) THEN "doc"
        ELSE "unknown"

\* extract_text: which parser runs, whether text comes back, and the message of
\* the ValueError when none does.  content.parses says whether the PDF or DOCX
\* library reads the bytes; extract_text_from_doc raises whatever the bytes.
extract_text(content, filename) ==
    LET file_type == get_file_type(filename)
    IN  IF file_type = "pdf"
        THEN [parser |-> "pdf", ok |-> content.parses,
              error |-> IF content.parses THEN "" ELSE PDF_ERROR]
        ELSE IF file_type = "docx"
        THEN [parser |-> "docx", ok |-> content.parses,
              error |-> IF content.parses THEN "" ELSE DOCX_ERROR]
        ELSE IF file_type = "doc"
        THEN [parser |-> "doc", ok |-> FALSE, error |-> DOC_ERROR]
        ELSE [parser |-> "none", ok |-> FALSE, error |-> UNSUPPORTED_ERROR]

\* ---------------------------------------------------------- URLDownloader

\* A URL and a header value are sequences of characters; the words
\* "attachment", "filename=" and "size=1" of a Content-Disposition value and
\* "quote" (a single or double quotation mark) stand for their characters.

\* s.split(c)[0]
BeforeFirst(s, c) ==
    IF c \notin SeqToSet(s) THEN s
    ELSE LET i == CHOOSE k \in 1..Len(s) :
                     s[k] = c /\ \A j \in 1..(k - 1) : s[j] # c
         IN  SubSeq(s, 1, i - 1)

\* s.split(c)[-1]
AfterLast(s, c) ==
    IF c \notin SeqToSet(s) THEN s
    ELSE LET i == CHOOSE k \in 1..Len(s) :
                     s[k] = c /\ \A j \in (k + 1)..Len(s) : s[j] # c
         IN  SubSeq(s, i + 1, Len(s))

\* s.split(c)[1], for an s that holds c
SecondPart(s, c) ==
    LET i == CHOOSE k \in 1..Len(s) : s[k] = c /\ \A j \in 1..(k - 1) : s[j] # c
    IN  BeforeFirst(SubSeq(s, i + 1, Len(s)), c)

\* s.strip of both quotation marks
RECURSIVE LStripQuotes(_)
LStripQuotes(s) ==
    IF s # <<>> /\ Head(s) = "quote" THEN LStripQuotes(Tail(s)) ELSE s

RECURSIVE RStripQuotes(_)
RStripQuotes(s) ==
    IF s # <<>> /\ s[Len(s)] = "quote"
    THEN RStripQuotes(SubSeq(s, 1, Len(s) - 1)) ELSE s

StripQuotes(s) == RStripQuotes(LStripQuotes(s))

\* word in content_type.lower(), for the content types at hand
Mentions(content_type, word) ==
    IF word = "pdf" THEN content_type \in {"application/pdf", "APPLICATION/PDF"}
    ELSE IF word = "msword" THEN content_type = "application/msword"
    ELSE IF word = "wordprocessingml"
    THEN content_type =
            "application/vnd.openxmlformats-officedocument.wordprocessingml.document"
    ELSE FALSE

RESUME_PDF == <<"r", "e", "s", "u", "m", "e", ".", "p", "d", "f">>
RESUME_DOCX == <<"r", "e", "s", "u", "m", "e", ".", "d", "o", "c", "x">>

\* the default name when the URL gives a name without a dot
InferFromContentType(content_type) ==
    IF Mentions(content_type, "pdf") THEN RESUME_PDF
    ELSE IF Mentions(content_type, "msword")
            \/ Mentions(content_type, "wordprocessingml")
    THEN RESUME_DOCX
    ELSE RESUME_PDF

\* _extract_filename: headers holds content_disposition and content_type as received ("" and <<>>
\* when the header is absent)
extract_filename(url, headers) ==
    LET content_disposition == headers.content_disposition
        from_header ==
            IF "filename=" \in SeqToSet(content_disposition)
            THEN StripQuotes(SecondPart(content_disposition, "filename="))
            ELSE <<>>
        url_path == BeforeFirst(url, "?")
        filename == AfterLast(url_path, "/")
    IN  IF from_header # <<>> THEN from_header
        ELSE IF "." \notin SeqToSet(filename)
        THEN InferFromContentType(headers.content_type)
        ELSE filename

\* the messages of the ValueError download_file raises, by their fixed part; a
\* ValueError raised inside the try block is caught by "except Exception" and
\* raised again behind the words "Unexpected error downloading file"
HTTP_ERROR == "Failed to download file: HTTP"
TIMEOUT_ERROR == "Request timed out"
REQUEST_ERROR == "Failed to download file"
OVERSIZE_ERROR == "Unexpected error downloading file: File size exceeds maximum"
INVALID_TYPE_ERROR == "Unexpected error downloading file: Invalid file type"

Failed(done, filename, error) ==
    [steps |-> done, raised |-> TRUE, filename |-> filename, error |-> error]

\* download_file(url) against a server that answers as resp says.  client.get
\* is not a streaming request: it returns when the response body has been read
\* ("get", then "body"); response.content hands out the bytes already read.
Download(url, resp) ==
    IF resp.status = "timeout" THEN Failed(<<"get">>, <<>>, TIMEOUT_ERROR)
    ELSE IF resp.status = "request_error"
    THEN Failed(<<"get">>, <<>>, REQUEST_ERROR)
    ELSE IF resp.status = "http_error"
    THEN Failed(<<"get", "body", "raise_for_status">>, <<>>, HTTP_ERROR)
    ELSE LET filename == extract_filename(url, resp.headers)
             s1 == <<"get", "body", "raise_for_status", "_extract_filename",
                     "content-length">>
             s2 == s1 \o <<"content", "len">>
             s3 == Append(s2, "is_valid_extension")
         IN  IF resp.content_length.present
                /\ resp.content_length.n > MAX_FILE_SIZE
             THEN Failed(s1, filename, OVERSIZE_ERROR)
             ELSE IF resp.body_len > MAX_FILE_SIZE
             THEN Failed(s2, filename, OVERSIZE_ERROR)
             ELSE IF ~is_valid_extension(filename)
             THEN Failed(s3, filename, INVALID_TYPE_ERROR)
             ELSE [steps |-> s3, raised |-> FALSE, filename |-> filename,
                   error |-> ""]

\* -------------------------------------------------------- request handlers

\* fewest characters of extracted text, and of job description, after trimming
MIN_RESUME_CHARS == 50
MIN_JOB_CHARS == 30

NoResponse == [has_text |-> FALSE, text |-> <<>>]
NoPayload ==
    [kind |-> "none", score |-> Missing, feedback |-> Missing,
     strengths |-> Missing, weaknesses |-> Missing, recommendations |-> Missing,
     cover_letter |-> Missing, job_title |-> Missing, company_name |-> Missing,
     notes |-> Missing, regenerated_resume |-> Missing]
NoRequest ==
    [filename |-> <<>>, size |-> 0, parses |-> FALSE, text_len |-> 0, job_len |-> 0]

\* the service check placed after the file checks
ServiceCheck_Late(service, rest) ==
    IF rest.status # 0 THEN [rest EXCEPT !.steps = <<"service">> \o rest.steps]
    ELSE IF service = "None"
    THEN [status |-> 500, detail |-> "not configured", steps |-> <<"service">>]
    ELSE [rest EXCEPT !.steps = <<"service">> \o rest.steps]

\* "if not gemini_service": the first statement of each handler
ServiceCheck(service, rest) ==
    IF service = "None"
    THEN [status |-> 500, detail |-> "not configured", steps |-> <<"service">>]
    ELSE [rest EXCEPT !.steps = <<"service">> \o rest.steps]

\* the parser extract_text called, for a request that came to the extraction
ParserCalled(req, done) ==
    IF "extract" \in SeqToSet(done) THEN extract_text(req, req.filename).parser ELSE ""

\* FileChecks without the check of the length of the extracted text
FileChecks_NoLength(ep, req) ==
    IF ~is_valid_extension(req.filename)
    THEN [status |-> 400, detail |-> "invalid file type", steps |-> <<"extension">>]
    ELSE IF req.size > MAX_FILE_SIZE
    THEN [status |-> 400, detail |-> "file too large",
          steps |-> <<"extension", "read", "size">>]
    ELSE IF ~extract_text(req, req.filename).ok
    THEN [status |-> 400, detail |-> extract_text(req, req.filename).error,
          steps |-> <<"extension", "read", "size", "extract">>]
    ELSE IF ep = "cover_letter" /\ req.job_len < MIN_JOB_CHARS
    THEN [status |-> 400, detail |-> "job description too short",
          steps |-> <<"extension", "read", "size", "extract", "job_description">>]
    ELSE [status |-> 0, detail |-> "",
          steps |-> <<"extension", "read", "size", "extract", "model">>]

\* the checks of a handler after the service check, up to the model call:
\* status 0 means every check passed
FileChecks(ep, req) ==
    IF ~is_valid_extension(req.filename)
    THEN [status |-> 400, detail |-> "invalid file type", steps |-> <<"extension">>]
    ELSE IF req.size > MAX_FILE_SIZE
    THEN [status |-> 400, detail |-> "file too large",
          steps |-> <<"extension", "read", "size">>]
    ELSE IF ~extract_text(req, req.filename).ok
    THEN [status |-> 400, detail |-> extract_text(req, req.filename).error,
          steps |-> <<"extension", "read", "size", "extract">>]
    ELSE IF req.text_len < MIN_RESUME_CHARS
    THEN [status |-> 400, detail |-> "insufficient text",
          steps |-> <<"extension", "read", "size", "extract", "length">>]
    ELSE IF ep = "cover_letter" /\ req.job_len < MIN_JOB_CHARS
    THEN [status |-> 400, detail |-> "job description too short",
          steps |-> <<"extension", "read", "size", "extract", "length",
                      "job_description">>]
    ELSE [status |-> 0, detail |-> "",
          steps |-> IF ep = "cover_letter"
                    THEN <<"extension", "read", "size", "extract", "length",
                           "job_description", "model">>
                    ELSE <<"extension", "read", "size", "extract", "length",
                           "model">>]

Checks(ep, service, req) == ServiceCheck(service, FileChecks(ep, req))

\* "except ValueError as e" around the model call of each handler
MODEL_ERROR_STATUS == 500

\* the response model accepts the fields: str where a str is declared, a list
\* where a list is declared
ResponseModelOK(ep, fields) ==
    IF ep = "score"
    THEN /\ fields.feedback.t = "str"
         /\ fields.strengths.t = "list"
         /\ fields.weaknesses.t = "list"
         /\ fields.recommendations.t = "list"
    ELSE IF ep = "cover_letter"
    THEN /\ fields.cover_letter.t = "str"
         /\ \A f \in {fields.job_title, fields.company_name, fields.notes} :
                f.t = "str"
    ELSE fields.regenerated_resume.t = "str" /\ fields.notes.t = "str"

\* Respond with a ValueError of the operation answered as a client error
Respond_ClientError(ep, out) ==
    IF out.status = "ValueError" THEN [status |-> 400, detail |-> "model error"]
    ELSE IF ResponseModelOK(ep, out.fields) THEN [status |-> 200, detail |-> ""]
    ELSE [status |-> 500, detail |-> "unexpected error"]

\* status and detail of the request once the operation has ended
Respond(ep, out) ==
    IF out.status = "ValueError"
    THEN [status |-> MODEL_ERROR_STATUS, detail |-> "model error"]
    ELSE IF ResponseModelOK(ep, out.fields)
    THEN [status |-> 200, detail |-> ""]
    ELSE [status |-> 500, detail |-> "unexpected error"]

\* a request one of the checks ends: no model operation takes place
Reject(ep, req, pre) ==
    /\ endpoint' = ep
    /\ request' = req
    /\ steps' = pre.steps
    /\ parser' = ParserCalled(req, pre.steps)
    /\ status_code' = pre.status
    /\ detail' = pre.detail
    /\ start_index' = current_model_index
    /\ invoked' = <<>>
    /\ producer' = ""
    /\ tried' = <<>>
    /\ response' = NoResponse
    /\ payload' = NoPayload
    /\ outcome' = NoOutcome
    /\ UNCHANGED <<pc, configured, gemini_service, all_models, service_vars,
                   download_vars>>

\* a request that passed every check: the model operation and the response
Serve(ep, req, pre, fails, resp, pay, tie_up) ==
    LET svc == [model |-> model, index |-> current_model_index]
        o == Operation(ep, model_names, svc, fails, resp, pay, tie_up)
        r == Respond(ep, o.outcome)
    IN  /\ endpoint' = ep
        /\ request' = req
        /\ steps' = pre.steps
        /\ parser' = ParserCalled(req, pre.steps)
        /\ model' = o.svc.model
        /\ current_model_index' = o.svc.index
        /\ start_index' = current_model_index
        /\ invoked' = o.invoked
        /\ producer' = o.producer
        /\ tried' = o.tried
        /\ response' = IF o.received THEN resp ELSE NoResponse
        /\ payload' = IF o.received THEN pay ELSE NoPayload
        /\ outcome' = o.outcome
        /\ status_code' = r.status
        /\ detail' = r.detail
        /\ UNCHANGED <<pc, configured, gemini_service, all_models, model_names,
                       download_vars>>

\* ------------------------------------------------------------------ inputs

Seqs(S, n) == UNION {[1..k -> S] : k \in 0..n}

TOKENS == {FENCE_JSON, FENCE, BACKSLASH, LETTER_S, WS, "x", PAYLOAD}

\* every response text of at most MaxLen tokens, and a response whose text
\* cannot be read
AllResponses ==
    {[has_text |-> TRUE, text |-> t] : t \in Seqs(TOKENS, MaxLen)} \cup {NoResponse}

\* a few response texts: bare JSON, fenced JSON, prose, nothing
FewResponses ==
    {[has_text |-> TRUE, text |-> t] :
        t \in {<<PAYLOAD>>, <<FENCE_JSON, PAYLOAD, FENCE>>, <<"x">>, <<>>}}

Object == [NoPayload EXCEPT !.kind = "object"]
NonObject == [NoPayload EXCEPT !.kind = "array"]

\* scores in thousandths, around the ends of the range and around ties
ScoreVals ==
    {Missing, Null, Str(<<"x">>), NumStr(85000), Inf, NegInf, NaN}
    \cup {Num(n) : n \in {0 - 1000, 0 - 1, 0, 4, 5, 6, 85123, 85125, 85127,
                          99994, 99995, 99996, SCORE_MAX, SCORE_MAX + 1,
                          SCORE_MAX + 1000}}

\* values of a mandatory text field
TextVals ==
    {Missing, Null, Num(1)}
    \cup {Str(t) : t \in {<<>>, <<WS>>, <<"x">>, <<WS, "x">>, <<WS, WS>>}}

\* values of an optional text field
OptVals == {Missing, Null, Str(<<>>), Str(<<"x">>)}

ScorePayloads ==
    {[Object EXCEPT !.score = v, !.feedback = Str(<<"x">>), !.strengths = List] :
        v \in ScoreVals}
    \cup {[Object EXCEPT !.score = Num(85123), !.feedback = f] : f \in {Missing, Null}}

CoverPayloads ==
    {[Object EXCEPT !.cover_letter = c, !.job_title = o, !.company_name = o,
                    !.notes = o] : c \in TextVals, o \in OptVals}

ResumePayloads ==
    {[Object EXCEPT !.regenerated_resume = c, !.notes = o] :
        c \in TextVals, o \in OptVals}

\* the JSON values an operation is answered with: the objects written for
\* it, an object with none of its keys, and a value that is no object
AllPayloads(ep) ==
    {Object, NonObject}
    \cup (IF ep = "score" THEN ScorePayloads
          ELSE IF ep = "cover_letter" THEN CoverPayloads
          ELSE ResumePayloads)

FewPayloads ==
    {[Object EXCEPT !.score = Num(85123), !.feedback = Str(<<"x">>),
                    !.cover_letter = Str(<<"x">>),
                    !.regenerated_resume = Str(<<"x">>)],
     Object}

\* the payload a response text denotes: one of pays when the text holds the
\* token of a JSON value
PayloadsOf(resp, pays) ==
    IF resp.has_text /\ PAYLOAD \in SeqToSet(resp.text) THEN pays ELSE {NoPayload}

PDF == <<"c", "v", ".", "p", "d", "f">>
PDF_UPPER == <<"C", "V", ".", "P", "D", "F">>
DOCX == <<"c", "v", ".", "d", "o", "c", "x">>
DOC == <<"c", "v", ".", "d", "o", "c">>
TXT == <<"c", "v", ".", "t", "x", "t">>

\* the job description is a field of the cover-letter request alone
JobLens(ep, lens) == IF ep = "cover_letter" THEN lens ELSE {0}

AllRequests(ep) ==
    [filename : {PDF, PDF_UPPER, DOCX, DOC, TXT},
     size : {MAX_FILE_SIZE, MAX_FILE_SIZE + 1},
     parses : BOOLEAN,
     text_len : {MIN_RESUME_CHARS - 1, MIN_RESUME_CHARS},
     job_len : JobLens(ep, {MIN_JOB_CHARS - 1, MIN_JOB_CHARS})]

GoodRequests(ep) ==
    [filename : {PDF_UPPER, TXT}, size : {MAX_FILE_SIZE}, parses : {TRUE},
     text_len : {MIN_RESUME_CHARS}, job_len : JobLens(ep, {MIN_JOB_CHARS})]

\* every file name of at most MaxName characters written with the characters
\* of the Word extensions, in either case of the letter d
NAME_CHARS == {".", "d", "o", "c", "x", "D"}
FileNames == Seqs(NAME_CHARS, MaxName)

FileRequests(ep) ==
    [filename : FileNames, size : {MAX_FILE_SIZE}, parses : BOOLEAN,
     text_len : {MIN_RESUME_CHARS}, job_len : JobLens(ep, {MIN_JOB_CHARS})]

\* which attempts of an operation raise: the loop stops at the first attempt
\* that succeeds, so a pattern is the number k of leading attempts that raise
FailPatterns(names, may_fail) ==
    {[i \in 1..Len(names) |-> i <= k] :
        k \in IF may_fail THEN 0..Len(names) ELSE {0}}

\* a score whose third decimal is 5 rounds either way
TieChoices(ep, pay) ==
    IF ep = "score" /\ pay.score.t \in {"num", "numstr"} /\ pay.score.n % 10 = 5
    THEN BOOLEAN ELSE {FALSE}

OTHER_NAMES == {"gemini-exp"}
Listed ==
    [name : {<<"models", n>> :
                n \in {PREFERRED[1], PREFERRED[2]} \cup OTHER_NAMES},
     generateContent : {TRUE}]
    \cup {[name |-> <<"models", PREFERRED[1]>>, generateContent |-> FALSE]}

\* what genai.list_models answers: it raises, or lists at most MaxList models
AllListings ==
    {[ok |-> FALSE, models |-> <<>>]}
    \cup {[ok |-> TRUE, models |-> m] : m \in Seqs(Listed, MaxList)}

\* before the constructor has listed the models
NoListing == [ok |-> FALSE, models |-> <<>>]

OneListing ==
    {[ok |-> TRUE,
      models |-> <<[name |-> <<"models", PREFERRED[1]>>, generateContent |-> TRUE]>>]}

FewListings ==
    LET entry(n) == [name |-> <<"models", n>>, generateContent |-> TRUE]
    IN  {[ok |-> TRUE, models |-> m] :
            m \in {<<>>, <<entry(PREFERRED[1])>>,
                   <<entry(PREFERRED[2]), entry(PREFERRED[1])>>}}

\* identifiers outside the preferred list that the backing service may list
OTHER_POOL ==
    <<"gemini-exp", "gemini-1.5-pro", "gemini-1.5-flash", "gemma-3", "learnlm",
      "aqa", "embedding-gecko">>

Entry(n, g) == [name |-> <<"models", n>>, generateContent |-> g]

\* listings of up to MaxOther models outside the preferred list, at most one of
\* them without generateContent, before or after a few preferred ones
WideListings ==
    LET others(k, u) == [i \in 1..k |-> Entry(OTHER_POOL[i], i # u)]
        prefs == {<<>>, <<Entry(PREFERRED[3], TRUE)>>,
                  <<Entry(PREFERRED[2], TRUE), Entry(PREFERRED[1], TRUE)>>,
                  <<Entry(PREFERRED[1], FALSE)>>}
    IN  {[ok |-> FALSE, models |-> <<>>]}
        \cup {[ok |-> TRUE, models |-> m] :
                 m \in UNION {{others(k, u) \o p, p \o others(k, u)} :
                                k \in 0..MaxOther, u \in 0..MaxOther, p \in prefs}}

\* a URL by its parts; URLString writes it out
HOST == <<"h", ".", "c">>
PATHS ==
    {<<>>, <<"/">>, <<"/", "g", "e", "t">>, <<"/", "c", "v", ".", "p", "d", "f">>,
     <<"/", "C", "V", ".", "P", "D", "F">>, <<"/", "c", "v", ".", "t", "x", "t">>,
     <<"/", "a", "/", "c", "v", ".", "d", "o", "c", "x">>,
     <<"/", "c", "v", ".", "p", "d", "f", "/">>,
     <<"/", "v", ".", "2", "/", "g", "e", "t">>}
QUERIES == {<<>>, <<"?", "a">>, <<"?", "a", "/", "b", ".", "c">>}
FRAGMENTS == {<<>>, <<"#", "p">>}
URLs == [path : PATHS, query : QUERIES, fragment : FRAGMENTS]

URLString(u) == <<"h", ":", "/", "/">> \o HOST \o u.path \o u.query \o u.fragment

\* a Content-Disposition header by its parts; DispositionString writes it out
NoDisposition ==
    [present |-> FALSE, has_filename |-> FALSE, filename |-> <<>>,
     quoted |-> FALSE, trailing |-> FALSE]
Dispositions ==
    {NoDisposition, [NoDisposition EXCEPT !.present = TRUE]}
    \cup [present : {TRUE}, has_filename : {TRUE},
          filename : {<<>>, PDF, DOC, TXT}, quoted : BOOLEAN, trailing : BOOLEAN]

DispositionString(d) ==
    IF ~d.present THEN <<>>
    ELSE IF ~d.has_filename THEN <<"attachment">>
    ELSE <<"attachment", ";", " ", "filename=">>
         \o (IF d.quoted THEN <<"quote">> \o d.filename \o <<"quote">>
             ELSE d.filename)
         \o (IF d.trailing THEN <<";", " ", "size=1">> ELSE <<>>)

CONTENT_TYPES ==
    {"", "application/pdf", "APPLICATION/PDF", "application/msword",
     "application/vnd.openxmlformats-officedocument.wordprocessingml.document",
     "application/octet-stream"}

ContentLengths ==
    {[present |-> FALSE, n |-> 0]}
    \cup [present : {TRUE}, n : {MAX_FILE_SIZE, MAX_FILE_SIZE + 1}]

NoDownload ==
    [url |-> [path |-> <<>>, query |-> <<>>, fragment |-> <<>>], status |-> "",
     disposition |-> NoDisposition, content_type |-> "",
     content_length |-> [present |-> FALSE, n |-> 0], body_len |-> 0]

NotDownloaded == [steps |-> <<>>, raised |-> FALSE, filename |-> <<>>, error |-> ""]

\* every URL against every answer of the server; a request that fails or is
\* answered with an error status has no headers worth telling apart
AllDownloads ==
    [url : URLs, status : {"ok"}, disposition : Dispositions,
     content_type : CONTENT_TYPES, content_length : ContentLengths,
     body_len : {MAX_FILE_SIZE, MAX_FILE_SIZE + 1}]
    \cup {[NoDownload EXCEPT !.url = u, !.status = st] :
             u \in URLs, st \in {"http_error", "timeout", "request_error"}}

\* ------------------------------------------------------------- the system

Init ==
    /\ pc = "boot"
    /\ configured \in BOOLEAN
    /\ gemini_service = "None"
    /\ all_models = NoListing
    /\ model_names = <<>>
    /\ model = ""
    /\ current_model_index = 0
    /\ endpoint = ""
    /\ request = NoRequest
    /\ steps = <<>>
    /\ parser = ""
    /\ start_index = 0
    /\ invoked = <<>>
    /\ producer = ""
    /\ tried = <<>>
    /\ response = NoResponse
    /\ payload = NoPayload
    /\ outcome = NoOutcome
    /\ status_code = 0
    /\ detail = ""
    /\ download = NoDownload
    /\ downloaded = NotDownloaded

request_vars == <<endpoint, request, steps, parser, start_index, invoked, producer, tried,
                  response, payload, outcome, status_code, detail>>

\* GeminiService(): the state of a constructed service, or "ValueError"
Construct(is_configured, listed) ==
    IF ~is_configured THEN [raised |-> TRUE, names |-> <<>>, model |-> "", index |-> 0]
    ELSE LET names == Roster(listed)
         IN  IF names = <<>>
             THEN [raised |-> TRUE, names |-> <<>>, model |-> "", index |-> 0]
             ELSE [raised |-> FALSE, names |-> names, model |-> names[1], index |-> 0]

\* lifespan: startup builds the service; a ValueError is printed and startup
\* goes on with gemini_service unset
Startup(listings) ==
    /\ pc = "boot"
    /\ \E listed \in listings :
          LET c == Construct(configured, listed)
          IN  /\ gemini_service' = IF c.raised THEN "None" ELSE "GeminiService"
              /\ all_models' = IF configured THEN listed ELSE NoListing
              /\ model_names' = c.names
              /\ model' = c.model
              /\ current_model_index' = c.index
    /\ pc' = "serving"
    /\ UNCHANGED <<configured, request_vars, download_vars>>

Handler(ep, requests, may_fail, responses, payloads) ==
    /\ pc = "serving"
    /\ \E req \in requests :
          LET pre == Checks(ep, gemini_service, req)
          IN  \/ /\ pre.status # 0
                 /\ Reject(ep, req, pre)
              \/ /\ pre.status = 0
                 /\ \E fails \in FailPatterns(model_names, may_fail),
                       resp \in responses :
                       \E pay \in PayloadsOf(resp, payloads) :
                          \E tie_up \in TieChoices(ep, pay) :
                             Serve(ep, req, pre, fails, resp, pay, tie_up)

resume_ats_score(requests, may_fail, responses, payloads) ==
    Handler("score", requests, may_fail, responses, payloads)

cover_letter_generator(requests, may_fail, responses, payloads) ==
    Handler("cover_letter", requests, may_fail, responses, payloads)

ats_resume_generator(requests, may_fail, responses, payloads) ==
    Handler("resume", requests, may_fail, responses, payloads)

\* the service under every start-up and every failure of the backing models,
\* with a few requests and model responses
Next ==
    \/ Startup(AllListings)
    \/ resume_ats_score(GoodRequests("score"), TRUE, FewResponses, FewPayloads)
    \/ cover_letter_generator(GoodRequests("cover_letter"), TRUE, FewResponses,
                              FewPayloads)
    \/ ats_resume_generator(GoodRequests("resume"), TRUE, FewResponses, FewPayloads)

Spec == Init /\ [][Next]_vars

\* the service under every request, with a roster of at most two models
NextRequests ==
    \/ Startup(FewListings)
    \/ resume_ats_score(AllRequests("score"), TRUE, FewResponses, FewPayloads)
    \/ cover_letter_generator(AllRequests("cover_letter"), TRUE, FewResponses,
                              FewPayloads)
    \/ ats_resume_generator(AllRequests("resume"), TRUE, FewResponses, FewPayloads)

SpecRequests == Init /\ [][NextRequests]_vars

\* the first request of a service whose first model answers, under every
\* model response
FirstRequest == endpoint = ""

NextResponses ==
    \/ Startup(OneListing)
    \/ FirstRequest
       /\ resume_ats_score(GoodRequests("score"), FALSE, AllResponses,
                           AllPayloads("score"))
    \/ FirstRequest
       /\ cover_letter_generator(GoodRequests("cover_letter"), FALSE, AllResponses,
                                 AllPayloads("cover_letter"))
    \/ FirstRequest
       /\ ats_resume_generator(GoodRequests("resume"), FALSE, AllResponses,
                               AllPayloads("resume"))

SpecResponses == Init /\ [][NextResponses]_vars

\* the first request of a service, under every file name
NextFiles ==
    \/ Startup(OneListing)
    \/ FirstRequest
       /\ resume_ats_score(FileRequests("score"), FALSE, FewResponses, FewPayloads)

SpecFiles == Init /\ [][NextFiles]_vars

\* URLDownloader.download_file
download_file(downloads) ==
    \E d \in downloads :
       LET headers == [content_disposition |-> DispositionString(d.disposition),
                       content_type |-> d.content_type]
           resp == [status |-> d.status, headers |-> headers,
                    content_length |-> d.content_length, body_len |-> d.body_len]
       IN  /\ download' = d
           /\ downloaded' = Download(URLString(d.url), resp)
           /\ UNCHANGED <<pc, configured, gemini_service, all_models, service_vars,
                          request_vars>>

\* the first download, under every URL and every answer of the server
FirstDownload == download = NoDownload

NextDownload == FirstDownload /\ download_file(AllDownloads)

SpecDownload == Init /\ [][NextDownload]_vars

\* the construction of the service under wide listings
NextConstruction == Startup(WideListings)

SpecConstruction == Init /\ [][NextConstruction]_vars

\* ------------------------------------------------------------------ claims

Operated == invoked # <<>>
Received == Operated /\ producer # ""
ReturnedResult == outcome.status = "returned"
ServiceNow == [model |-> model, index |-> current_model_index]

\* C1: the attempts of an operation go through the roster in roster order
\* from its first entry: attempt k (counting from 0) invokes roster[k].
C1_AttemptsInRosterOrder ==
    \A k \in 1..Len(invoked) : invoked[k] = model_names[k]

\* C2: a result of the cover-letter or resume operation names, as model_used,
\* the model whose generate_content call returned the response.
C2_ModelUsedIsProducer ==
    (ReturnedResult /\ endpoint \in {"cover_letter", "resume"})
        => outcome.fields.model_used = producer

\* a cover letter returned by an operation that began at a later roster entry
\* (an earlier operation fell back) and fell back itself
C2_Witness ==
    /\ ReturnedResult
    /\ endpoint = "cover_letter"
    /\ start_index > 0
    /\ Len(invoked) > 1
    /\ outcome.fields.model_used = producer

\* C3: the identifiers the exhausted-roster error lists are exactly the
\* identifiers the operation invoked.
C3_TriedAreInvoked ==
    outcome.error = "exhausted" => SeqToSet(tried) = SeqToSet(invoked)

ScoreParsed ==
    /\ endpoint = "score"
    /\ response.has_text
    /\ IsJSON(StripFences(Strip(response.text)))
    /\ payload.kind = "object"

\* C4: a JSON object with a numeric or missing score s yields the score
\* min(100, max(0, s)) rounded to 2 decimals (s = 0 when missing); every
\* returned score lies in [0, 100]; above 100 yields 100, below 0 yields 0.
C4_ScoreClampedAndRounded ==
    /\ (ScoreParsed /\ payload.score.t \in {"num", "missing"}) =>
          LET s == IF payload.score.t = "missing" THEN 0 ELSE payload.score.n
              lower == IF s < 0 THEN 0 ELSE s
              c == IF lower > SCORE_MAX THEN SCORE_MAX ELSE lower
              got == outcome.fields.score
          IN  /\ ReturnedResult
              /\ got.t = "num"
              /\ got.n % 10 = 0
              /\ got.n - c <= 5 /\ c - got.n <= 5
              /\ (s > SCORE_MAX => got.n = SCORE_MAX)
              /\ (s < 0 => got.n = 0)
    /\ (endpoint = "score" /\ ReturnedResult) =>
          /\ outcome.fields.score.t = "num"
          /\ outcome.fields.score.n >= 0
          /\ outcome.fields.score.n <= SCORE_MAX

\* a model score of 101 returned as exactly 100
C4_Witness ==
    /\ ScoreParsed
    /\ payload.score = Num(SCORE_MAX + 1000)
    /\ ReturnedResult
    /\ outcome.fields.score = Num(SCORE_MAX)

\* the text holds one JSON value between an opening fence (with or without
\* json) and a closing fence
IsFenced(text) ==
    /\ Len(text) >= 3
    /\ text[1] \in {FENCE_JSON, FENCE}
    /\ text[Len(text)] = FENCE
    /\ Strip(SubSeq(text, 2, Len(text) - 1)) = <<PAYLOAD>>

BareResponse == [has_text |-> TRUE, text |-> <<PAYLOAD>>]

\* C5: in each of the three operations a fenced JSON payload yields the
\* result the same payload yields without fences.
C5_FencedEqualsBare ==
    (Received /\ response.has_text /\ IsFenced(response.text)) =>
        \E tie_up \in BOOLEAN :
            outcome = Body(endpoint, BareResponse, payload, model_names, ServiceNow,
                           tie_up)

CoverLetterAbsent ==
    \/ payload.cover_letter.t = "missing"
    \/ payload.cover_letter.t = "str" /\ Strip(payload.cover_letter.s) = <<>>

\* C6: a parsed response without a cover_letter key, or with an empty or
\* whitespace-only cover_letter, makes generate_cover_letter raise ValueError
\* and return nothing, whatever job_title, company_name and notes hold.
C6_MissingCoverLetterRaises ==
    (endpoint = "cover_letter" /\ Received /\ payload.kind = "object"
     /\ CoverLetterAbsent)
        => /\ outcome.status = "ValueError"
           /\ outcome.fields = NoFields
           /\ status_code # 200

\* a whitespace-only cover_letter beside a job_title, refused
C6_Witness ==
    /\ endpoint = "cover_letter"
    /\ Received
    /\ IsJSON(StripFences(Strip(response.text)))
    /\ payload.kind = "object"
    /\ payload.cover_letter = Str(<<WS>>)
    /\ payload.job_title = Str(<<"x">>)
    /\ outcome.status = "ValueError"

\* C7: every result generate_ats_optimized_resume returns has a non-empty
\* regenerated_resume.
C7_ResumeNeverEmpty ==
    (endpoint = "resume" /\ ReturnedResult)
        => /\ outcome.fields.regenerated_resume.t = "str"
           /\ outcome.fields.regenerated_resume.s # <<>>

HasFenceBackslash(text) ==
    \E i \in 1..(Len(text) - 1) :
        text[i] \in {FENCE_JSON, FENCE} /\ text[i + 1] = BACKSLASH

ParseFailed ==
    endpoint \in {"score", "cover_letter"} /\ Received /\ outcome.error = "parse"

\* C9 as stated: on the score and cover-letter endpoints a model output that
\* cannot be parsed as JSON is answered with HTTP 400.
C9_ParseFailureIs400 == ParseFailed => status_code = 400

\* C9 (amended): on the score and cover-letter endpoints a model output that
\* cannot be parsed as JSON is answered with HTTP 500.
C9_ParseFailureIs500 == ParseFailed => status_code = 500 /\ detail = "model error"

\* prose answered by the model on the score endpoint
C9_Witness == ParseFailed /\ endpoint = "score" /\ status_code = 500

\* C10: without the credential the process starts, the model client stays
\* unset, and every request to the three endpoints is answered with HTTP 500
\* "not configured" before any other step of the handler.
C10_UnconfiguredAnswers500 ==
    ~configured =>
        /\ gemini_service = "None"
        /\ (pc = "boot" => ENABLED Startup(FewListings))
        /\ (endpoint # "" =>
               /\ status_code = 500
               /\ detail = "not configured"
               /\ steps = <<"service">>
               /\ invoked = <<>>)

\* an unconfigured service answering a request whose file name has no
\* allowed extension
C10_Witness ==
    /\ ~configured
    /\ pc = "serving"
    /\ endpoint = "cover_letter"
    /\ ~is_valid_extension(request.filename)
    /\ status_code = 500

\* what the first failing check of a request answers, "" when all pass; the
\* checks are read off the request, in the order of the claim
FirstFailure ==
    IF request.filename \notin {PDF, PDF_UPPER, DOCX, DOC} THEN "invalid file type"
    ELSE IF request.size > 10 * 1024 * 1024 THEN "file too large"
    ELSE IF request.filename = DOC \/ ~request.parses THEN "extraction failed"
    ELSE IF request.text_len < 50 THEN "insufficient text"
    ELSE IF endpoint = "cover_letter" /\ request.job_len < 30
    THEN "job description too short"
    ELSE ""

\* C11: in the three handlers the model is invoked only after the extension,
\* size, extraction, text length and (cover letter) job description checks
\* passed, in this order; a failing check ends the request with HTTP 400 and
\* without a model invocation.
C11_ModelAfterChecks ==
    (endpoint # "" /\ gemini_service # "None") =>
        /\ (Operated => FirstFailure = "")
        /\ (FirstFailure = "" => Operated /\ steps[Len(steps)] = "model")
        /\ (FirstFailure # "" =>
               /\ status_code = 400
               /\ IF FirstFailure = "extraction failed"
                  THEN detail \in {PDF_ERROR, DOCX_ERROR, DOC_ERROR}
                  ELSE detail = FirstFailure
               /\ ~Operated
               /\ "model" \notin SeqToSet(steps))

\* a cover-letter request whose file passes and whose job description is too
\* short, refused without a model invocation
C11_Witness ==
    /\ endpoint = "cover_letter"
    /\ gemini_service # "None"
    /\ request.filename = DOCX
    /\ request.text_len = MIN_RESUME_CHARS
    /\ request.job_len = MIN_JOB_CHARS - 1
    /\ status_code = 400
    /\ detail = "job description too short"
    /\ ~Operated

\* C12: handling a request writes no process-wide state: a Model Client
\* operation, successful or failed, leaves the roster, the current model and
\* current_model_index of the instance as they were before it.
C12_OperationWritesNoState ==
    [][pc = "serving" => UNCHANGED service_vars]_vars

NoDuplicates(names) ==
    \A i, j \in 1..Len(names) : i # j => names[i] # names[j]

\* C17: within one operation no model identifier is invoked more than once,
\* when the roster holds no identifier twice, whatever state earlier
\* operations left.
C17_NoRepeatedInvocation ==
    NoDuplicates(model_names) => NoDuplicates(invoked)

\* current_model_index is a roster index and names the model in self.model
IndexNamesModel ==
    gemini_service # "None" =>
        /\ current_model_index \in 0..(Len(model_names) - 1)
        /\ model = model_names[current_model_index + 1]

\* the first roster entry, when no later entry holds the same identifier
FirstEntryOfSeveral ==
    /\ Len(model_names) > 1
    /\ \A k \in 2..Len(model_names) : model_names[k] # model_names[1]

\* C18: the first attempt of every operation is made against the roster entry
\* at which the previous operation stopped (the first entry when there was
\* none); current_model_index is always a valid roster index naming the model
\* in self.model; and once an operation has gone past its first attempt, the
\* first entry of a roster of several entries is never invoked again.
C18_StartsWherePreviousStopped ==
    /\ [](IndexNamesModel)
    /\ [](pc = "boot" => current_model_index = 0)
    /\ [][(pc = "serving" /\ invoked' # <<>> /\ request_vars' # request_vars)
             => invoked'[1] = model_names[current_model_index + 1]]_vars
    /\ [][current_model_index > 0 => current_model_index' > 0]_vars
    /\ []((Operated /\ start_index > 0 /\ FirstEntryOfSeveral)
             => model_names[1] \notin SeqToSet(invoked))

\* an operation that began at a later entry, fell back again, and never
\* invoked the first entry
C18_Witness ==
    /\ Operated
    /\ start_index > 0
    /\ Len(invoked) > 1
    /\ FirstEntryOfSeveral
    /\ invoked[1] = model_names[start_index + 1]
    /\ model_names[1] \notin SeqToSet(invoked)

\* the request came to the text extraction
Extracting ==
    /\ endpoint # ""
    /\ gemini_service # "None"
    /\ request.size <= MAX_FILE_SIZE

\* C14: a file name whose lower-cased form ends in .doc fails extraction with
\* the unsupported-legacy-format error and reaches neither the PDF nor the
\* DOCX parser, whatever its content; a name ending in .docx goes to the DOCX
\* parser and is never handled as .doc.
C14_DocIsRefusedDocxIsParsed ==
    Extracting =>
        /\ EndsWith(Lower(request.filename), <<".", "d", "o", "c">>) =>
              /\ parser = "doc"
              /\ status_code = 400
              /\ detail = DOC_ERROR
              /\ ~Operated
        /\ EndsWith(Lower(request.filename), <<".", "d", "o", "c", "x">>) =>
              /\ parser = "docx"
              /\ detail # DOC_ERROR
              /\ (request.parses => Operated)
              /\ (~request.parses => status_code = 400 /\ detail = DOCX_ERROR)

\* a file of readable content named in upper case with the legacy extension,
\* refused as legacy format
C14_Witness ==
    /\ Extracting
    /\ request.filename = <<"x", ".", "D", "o", "c">>
    /\ request.parses
    /\ parser = "doc"
    /\ status_code = 400
    /\ detail = DOC_ERROR

\* the construction ran with a listing of the backing service
Listing == pc = "serving" /\ configured /\ all_models.ok

\* C15: the roster of a constructed service is the preferred list restricted
\* to the available identifiers, in preferred order; when none of them is
\* available and something is, the first five available identifiers; when
\* nothing is available the construction fails.  A constructed service has a
\* roster of one to five entries.
C15_RosterFromAvailability ==
    /\ Listing =>
          LET supporting == {i \in 1..Len(all_models.models) :
                                all_models.models[i].generateContent}
              short(i) == all_models.models[i].name[2]
              available == {short(i) : i \in supporting}
              preferred == Filter(PREFERRED, available)
          IN  /\ preferred # <<>> =>
                    gemini_service # "None" /\ model_names = preferred
              /\ (preferred = <<>> /\ available # {}) =>
                    /\ gemini_service # "None"
                    /\ Len(model_names) =
                          IF Cardinality(supporting) < 5
                          THEN Cardinality(supporting) ELSE 5
                    /\ \A k \in 1..Len(model_names) :
                          \E i \in supporting :
                             /\ model_names[k] = short(i)
                             /\ Cardinality({j \in supporting : j < i}) = k - 1
              /\ available = {} => gemini_service = "None"
    /\ gemini_service # "None" => Len(model_names) \in 1..5

\* six identifiers available and none of them preferred: the roster is the
\* first five
C15_Witness ==
    /\ Listing
    /\ gemini_service # "None"
    /\ Len(all_models.models) = 7
    /\ Cardinality({i \in 1..7 : all_models.models[i].generateContent}) = 6
    /\ ~all_models.models[1].generateContent
    /\ Len(model_names) = 5
    /\ model_names[1] = OTHER_POOL[1]
    /\ model_names[5] = OTHER_POOL[5]

\* the server answered the download with a success status
AnsweredOK == download # NoDownload /\ download.status = "ok"

\* C13: when the response declares a content-length above the 10MB cap,
\* download_file fails with the oversize error before the response body has
\* been read: the declared-size check precedes the read of the body.
C13_DeclaredOversizeFailsBeforeBody ==
    (AnsweredOK /\ download.content_length.present
                /\ download.content_length.n > 10 * 1024 * 1024) =>
        /\ downloaded.raised
        /\ downloaded.error = OVERSIZE_ERROR
        /\ "content-length" \in SeqToSet(downloaded.steps)
        /\ "body" \notin SeqToSet(downloaded.steps)

\* the file name by the stated precedence: the Content-Disposition
\* file name when the header carries a non-empty one, else the last segment
\* of the URL path when it has an extension, else the default of the content
\* type
ExpectedFilename ==
    LET d == download.disposition
        segment == AfterLast(download.url.path, "/")
    IN  IF d.present /\ d.has_filename /\ d.filename # <<>> THEN d.filename
        ELSE IF "." \in SeqToSet(segment) THEN segment
        ELSE IF download.content_type \in
                   {"application/msword",
                    "application/vnd.openxmlformats-officedocument.wordprocessingml.document"}
        THEN RESUME_DOCX
        ELSE RESUME_PDF

\* C16: _extract_filename picks the Content-Disposition file name when the
\* header carries a non-empty one, otherwise the last path segment of the URL
\* (query string removed), and only when that is no name with an extension
\* the default of the content type (resume.docx for Word types, resume.pdf
\* otherwise); a download whose file name does not end in .pdf, .doc or .docx
\* is rejected.
C16_FilenameByPrecedence ==
    AnsweredOK =>
        /\ downloaded.filename = ExpectedFilename
        /\ (~is_valid_extension(downloaded.filename) => downloaded.raised)

====
